---- MODULE Spec2Model ----
(***************************************************************************)
(* A model of eqllib/normalization.py: the Normalizer facade, the record   *)
(* normaliser built by get_data_normalizer (normalize_callback), the path  *)
(* scoper built by get_scoper (walk_path) and the QueryNormalizer rewrite  *)
(* hooks (_walk_event_query, _walk_field, _walk_function_call,             *)
(* _walk_comparison, _walk_in_set).                                        *)
(*                                                                         *)
(* Python values are tagged records [t, v]; AST nodes are records with a   *)
(* kind field.  The parsed-expression tables of the Normalizer are state,  *)
(* because _walk_field assigns to the path of a node stored in them.       *)
(***************************************************************************)
EXTENDS Integers, Sequences, FiniteSets, TLC

VARIABLES
    strict,               \* config['strict']
    filter_query,         \* config.get('filter_query')
    scope,                \* config['fields'].get('scope'), as its key list; <<>> when absent
    field_mapping,        \* Normalizer.field_mapping
    event_field_mapping,  \* Normalizer.event_field_mapping
    event_enums,          \* Normalizer.event_enums
    event_filters,        \* Normalizer.event_filters
    last                  \* the last call made on the Normalizer and what it returned or raised

vars == <<strict, filter_query, scope, field_mapping, event_field_mapping,
          event_enums, event_filters, last>>

(***************************************************************************)
(* Bounds of the model.                                                    *)
(***************************************************************************)
\* list indices that occur in field paths are 0 .. MaxIndex
MaxIndex == 0
\* coalesce(...) calls in the enumerated queries have 2 .. MaxArgs arguments
MaxArgs == 2

(***************************************************************************)
(* Python values.                                                          *)
(***************************************************************************)
None == [t |-> "null", v |-> 0]
Text(s) == [t |-> "str", v |-> s]
Num(i) == [t |-> "int", v |-> i]
Dict(f) == [t |-> "dict", v |-> f]
List(s) == [t |-> "list", v |-> s]
EmptyDict == [k \in {} |-> None]

\* the strings that occur as field values; each is one character long
Chars == {"x", "y"}

\* len(value) for the values that have a length
PyLen(value) ==
    CASE value.t = "list" -> Len(value.v)
      [] value.t = "str" -> IF value.v = "" THEN 0 ELSE 1
      [] value.t = "dict" -> Cardinality(DOMAIN value.v)

\* bool(value): None, 0, "", [] and {} are falsy
Truthy(value) ==
    CASE value.t = "null" -> FALSE
      [] value.t = "int" -> value.v # 0
      [] OTHER -> PyLen(value) > 0

\* dict.get(key): a key of another type than the dict's keys is simply absent
DictGet(d, key) ==
    IF key.t = "str" /\ key.v \in DOMAIN d THEN d[key.v] ELSE None

\* the two interpreters the module supports (from __future__ import print_function)
PyVersions == {2, 3}

(***************************************************************************)
(* AST nodes of the expression toolkit.                                    *)
(***************************************************************************)
\* ref names the Normalizer table entry a node is (the same object as), <<>> for
\* a node of its own
Field(base, path) == [kind |-> "Field", base |-> base, path |-> path, ref |-> <<>>]
String(s) == [kind |-> "String", value |-> s]
Null == [kind |-> "Null"]
\* a hook that returns nothing
PyNone == [kind |-> "None"]
Comparison(l, op, r) == [kind |-> "Comparison", left |-> l, comparator |-> op, right |-> r]
FunctionCall(name, args) == [kind |-> "FunctionCall", name |-> name, arguments |-> args]
InSet(e, c) == [kind |-> "InSet", expression |-> e, container |-> c]
Or(terms) == [kind |-> "Or", terms |-> terms]
And(terms) == [kind |-> "And", terms |-> terms]
Not(term) == [kind |-> "Not", term |-> term]
EventQuery(T, q) == [kind |-> "EventQuery", event_type |-> T, query |-> q]

IsLiteral(n) == n.kind \in {"String", "Null"}

(***************************************************************************)
(* The configuration the Normalizer is constructed from.                   *)
(***************************************************************************)
EVENT_TYPE_GENERIC == "generic"
time_field == "ts"
\* config['timestamp']['format']: the raw value is the tick count itself
time_format == "filetime"

\* config['events'] keys, in declaration order
EventNames == <<"process", "network">>

\* config['fields']['mapping'], parsed
ConfigFieldMapping ==
    [name |-> Field("a", <<>>),
     user |-> FunctionCall("coalesce", <<Field("b", <<>>), Field("a", <<>>)>>)]

\* config['events'][e]['mapping'], parsed
ConfigEventFieldMapping ==
    [process |-> [name |-> Field("b", <<>>)],
     network |-> EmptyDict]

\* config['events'][e]['enum'], parsed; the options of a field in declaration order
ConfigEventEnums ==
    [process |-> [subtype |-> << <<"create", Comparison(Field("b", <<>>), "==", String("x"))>>,
                                 <<"terminate", Comparison(Field("a", <<>>), "==", String("x"))>> >>],
     network |-> EmptyDict]

\* config['events'][e]['filter'], parsed
ConfigEventFilters ==
    [process |-> Comparison(Field("a", <<>>), "==", String("x")),
     network |-> Comparison(Field("b", <<>>), "==", String("x"))]

\* the values config['fields'].get('scope') takes: absent, s, s.k, s[0]
Scopes ==
    {<<>>, <<Text("s")>>, <<Text("s"), Text("k")>>} \cup
    {<<Text("s"), Num(i)>> : i \in 0..MaxIndex}


(***************************************************************************)
(* The expression engine: what a closure compiled by engine.convert        *)
(* returns for an event whose data is the given value.                     *)
(***************************************************************************)
Bool(b) == [t |-> "bool", v |-> b]
IsTrue(value) == IF value.t = "bool" THEN value.v ELSE Truthy(value)

\* Python ==: values of different types are unequal
PyEq(a, b) == a.t = b.t /\ a.v = b.v

\* value[i] for a sequence that has index i
Index(value, i) == IF value.t = "list" THEN value.v[i + 1] ELSE Text(value.v)

\* a field lookup never raises: what cannot be resolved is null
RECURSIVE EvalPath(_, _)
EvalPath(value, keys) ==
    IF keys = <<>> THEN value
    ELSE LET key == Head(keys) IN
         IF value.t = "dict" THEN EvalPath(DictGet(value.v, key), Tail(keys))
         ELSE IF value.t = "list" /\ key.t = "int" /\ key.v < Len(value.v)
              THEN EvalPath(Index(value, key.v), Tail(keys))
         ELSE None

\* coalesce: the first argument that is not null
RECURSIVE FirstNonNull(_)
FirstNonNull(values) ==
    IF values = <<>> THEN None
    ELSE IF Head(values).t # "null" THEN Head(values)
    ELSE FirstNonNull(Tail(values))

RECURSIVE Eval(_, _)
Eval(e, data) ==
    CASE e.kind = "Field" -> EvalPath(data, <<Text(e.base)>> \o e.path)
      [] e.kind = "String" -> Text(e.value)
      [] e.kind = "Null" -> None
      [] e.kind = "Comparison" ->
            LET eq == PyEq(Eval(e.left, data), Eval(e.right, data))
            IN  Bool(IF e.comparator = "==" THEN eq ELSE ~eq)
      [] e.kind = "FunctionCall" /\ e.name = "coalesce" ->
            FirstNonNull([i \in 1..Len(e.arguments) |-> Eval(e.arguments[i], data)])
      [] e.kind = "Or" -> Bool(\E i \in 1..Len(e.terms) : IsTrue(Eval(e.terms[i], data)))
      [] e.kind = "And" -> Bool(\A i \in 1..Len(e.terms) : IsTrue(Eval(e.terms[i], data)))
      [] e.kind = "Not" -> Bool(~IsTrue(Eval(e.term, data)))
      [] e.kind = "InSet" ->
            Bool(\E i \in 1..Len(e.container) :
                    PyEq(Eval(e.expression, data), Eval(e.container[i], data)))

(***************************************************************************)
(* Normalizer.get_scoper: walk_path over keys = [field.base] + field.path. *)
(* A call returns [exc, val]: the exception raised ("none" when it         *)
(* returns) and the value returned.                                        *)
(***************************************************************************)
Ok(value) == [exc |-> "none", val |-> value]
Raise(e) == [exc |-> e, val |-> None]

\* the loop of walk_path from the given key on; key < len(value) raises TypeError
\* for a value without a length, and for a string key under Python 3 (under
\* Python 2 a string is never smaller than a number)
RECURSIVE walk_keys(_, _, _)
walk_keys(value, keys, py) ==
    IF keys = <<>> THEN Ok(value)
    ELSE LET key == Head(keys) IN
         IF value.t = "null" THEN Ok(value)
         ELSE IF value.t = "dict" THEN walk_keys(DictGet(value.v, key), Tail(keys), py)
         ELSE IF value.t \notin {"list", "str"} THEN Raise("TypeError")
         ELSE IF key.t = "str" THEN
                 IF py = 3 THEN Raise("TypeError") ELSE walk_keys(None, Tail(keys), py)
         ELSE IF key.v < PyLen(value) THEN walk_keys(Index(value, key.v), Tail(keys), py)
         ELSE walk_keys(None, Tail(keys), py)

\* return value or {}
walk_path(value, py) ==
    LET r == walk_keys(value, scope, py)
    IN  IF r.exc # "none" THEN r
        ELSE Ok(IF Truthy(r.val) THEN r.val ELSE Dict(EmptyDict))


(***************************************************************************)
(* Normalizer.get_data_normalizer: the closure tables compiled once at     *)
(* construction from the parsed expressions, and normalize_callback.       *)
(***************************************************************************)
Tuple(s) == [t |-> "tuple", v |-> s]

\* event_updates: the list of (event_name, compiled filter) pairs, in declaration order
event_updates ==
    [i \in 1..Len(EventNames) |-> Tuple(<<EventNames[i], ConfigEventFilters[EventNames[i]]>>)]

\* enum_converters.get(event_type, []): (enum_name, [(option, checker)]) per enum field
enum_converters(event_type) ==
    IF event_type \in DOMAIN ConfigEventEnums THEN ConfigEventEnums[event_type] ELSE EmptyDict

global_mapping == ConfigFieldMapping

\* event_mapping.get(event_type, {})
event_mapping(event_type) ==
    IF event_type \in DOMAIN ConfigEventFieldMapping
    THEN ConfigEventFieldMapping[event_type] ELSE EmptyDict

\* data.get('event_type') in event_updates: list membership by ==
DeclaredInUpdates(data) ==
    \E i \in 1..Len(event_updates) :
        PyEq(DictGet(data.v, Text("event_type")), event_updates[i])

\* the loop without its break: the last filter that is true wins
RECURSIVE check_types_nobreak(_, _)
check_types_nobreak(evt, i) ==
    IF i > Len(event_updates) THEN EVENT_TYPE_GENERIC
    ELSE LET rest == check_types_nobreak(evt, i + 1)
         IN  IF IsTrue(Eval(event_updates[i].v[2], evt)) /\ rest = EVENT_TYPE_GENERIC
             THEN event_updates[i].v[1] ELSE rest

\* for name, check_type in event_updates: the first filter that is true; else generic
RECURSIVE check_types(_, _)
check_types(evt, i) ==
    IF i > Len(event_updates) THEN EVENT_TYPE_GENERIC
    ELSE IF IsTrue(Eval(event_updates[i].v[2], evt)) THEN event_updates[i].v[1]
    ELSE check_types(evt, i + 1)

\* the event type normalize_callback settles on
classify(data) ==
    IF DeclaredInUpdates(data) THEN DictGet(data.v, Text("event_type")).v
    ELSE check_types(data, 1)

\* for enum_option, enum_checker in enum_options: the first option that is true
RECURSIVE check_options(_, _, _)
check_options(options, evt, i) ==
    IF i > Len(options) THEN None
    ELSE IF IsTrue(Eval(options[i][2], evt)) THEN Text(options[i][1])
    ELSE check_options(options, evt, i + 1)

\* the output started from the scoped record whatever the mode
InitialOutputCopy(scoped) == scoped.v

\* output = {} if self.strict else scoped.copy()
InitialOutput(scoped) == IF strict THEN EmptyDict ELSE scoped.v

\* for normalized, converter in mapping.items(): output[normalized] = value, unless None
ApplyMapping(output, mapping, scoped_evt) ==
    LET set == {n \in DOMAIN mapping : Eval(mapping[n], scoped_evt).t # "null"}
    IN  [k \in DOMAIN output \cup set |->
            IF k \in set THEN Eval(mapping[k], scoped_evt) ELSE output[k]]

\* for enum_name, enum_options in enum_converters: output[enum_name] = the first true option
ApplyEnums(output, enums, evt) ==
    LET set == {n \in DOMAIN enums : check_options(enums[n], evt, 1).t # "null"}
    IN  [k \in DOMAIN output \cup set |->
            IF k \in set THEN check_options(enums[k], evt, 1) ELSE output[k]]

\* the output built from line 257 on, for a scoped record that is a dict
BuildOutput(data, scoped) ==
    LET event_type == classify(data)
        o1 == ApplyMapping(InitialOutput(scoped), global_mapping, scoped)
        o2 == ApplyEnums(o1, enum_converters(event_type), data)
        o3 == ApplyMapping(o2, event_mapping(event_type), scoped)
    IN  [k \in DOMAIN o3 \cup {"event_type", "timestamp"} |->
            CASE k = "event_type" -> Text(event_type)
              [] k = "timestamp" -> data.v[time_field]
              [] OTHER -> o3[k]]

\* scoped.copy() raises AttributeError for a value that has no copy method:
\* a string, a number, and under Python 2 a list
CopyFails(scoped, py) ==
    ~strict /\ (scoped.t \in {"str", "int"} \/ (scoped.t = "list" /\ py = 2))

\* normalize_callback(data).  A scoped value that is no dict is outside what
\* the engine's closures are specified for: under Python 3 a list is copied,
\* and then output[...] = ... raises TypeError; in strict mode the closures
\* either raise or find no field (lenient), and the output is built from {}.
normalize_callback(data, py, lenient) ==
    LET sc == IF scope = <<>> THEN Ok(data) ELSE walk_path(data, py)
        scoped == sc.val
    IN  IF sc.exc # "none" THEN Raise(sc.exc)
        ELSE IF CopyFails(scoped, py) THEN Raise("AttributeError")
        ELSE IF time_field \notin DOMAIN data.v THEN Raise("ValueError")
        ELSE IF scoped.t = "dict" THEN Ok(Dict(BuildOutput(data, scoped)))
        ELSE IF ~strict THEN Raise("TypeError")
        ELSE IF ~lenient THEN Raise("EngineError")
        ELSE Ok(Dict(BuildOutput(data, Dict(EmptyDict))))


(***************************************************************************)
(* QueryNormalizer: the rewrite hooks.  tabs is the pair of tables whose   *)
(* nodes _walk_field may assign to: [fm |-> field_mapping,                 *)
(* efm |-> event_field_mapping].                                           *)
(***************************************************************************)
\* current_event_type outside an event query
NoEventType == "any"

\* self.normalizer.event_enums.get(current_event_type, {}).get(name, {})
EnumOptions(T, name) ==
    IF T \in DOMAIN event_enums /\ name \in DOMAIN event_enums[T]
    THEN event_enums[T][name] ELSE <<>>

\* path[0] in enums
HasOption(enums, key) == key.t = "str" /\ \E i \in 1..Len(enums) : enums[i][1] = key.v
\* enums[path[0]]
OptionExpr(enums, key) == enums[CHOOSE i \in 1..Len(enums) : enums[i][1] = key.v][2]

\* the table entry a reference names
Entry(tabs, ref) ==
    IF ref[1] = "field_mapping" THEN tabs.fm[ref[2]] ELSE tabs.efm[ref[2]][ref[3]]

\* converted.path = path, on the table entry a reference names
SetPath(tabs, ref, path) ==
    IF ref[1] = "field_mapping"
    THEN [tabs EXCEPT !.fm[ref[2]].path = path]
    ELSE [tabs EXCEPT !.efm[ref[2]][ref[3]].path = path]

\* lines 59-61 for a converted node taken from a table: the node returned is
\* the table's own node
Attach(ref, field, tabs) ==
    LET converted == Entry(tabs, ref)
    IN  IF converted.kind = "Field" /\ field.path # <<>>
        THEN [node |-> [converted EXCEPT !.path = field.path, !.ref = ref],
              tabs |-> SetPath(tabs, ref, field.path)]
        ELSE [node |-> IF converted.kind = "Field" THEN [converted EXCEPT !.ref = ref]
                       ELSE converted,
              tabs |-> tabs]

\* the lookup with its operands swapped: global_converted or event_converted
ConvertedGlobalFirst(T, name, tabs) ==
    IF name \in DOMAIN tabs.fm THEN <<"field_mapping", name>>
    ELSE IF T \in DOMAIN tabs.efm /\ name \in DOMAIN tabs.efm[T]
    THEN <<"event_field_mapping", T, name>>
    ELSE <<>>

\* converted = event_converted or global_converted or default: the table entry
\* chosen, <<>> for the default (every AST node is truthy)
Converted(T, name, tabs) ==
    IF T \in DOMAIN tabs.efm /\ name \in DOMAIN tabs.efm[T]
    THEN <<"event_field_mapping", T, name>>
    ELSE IF name \in DOMAIN tabs.fm THEN <<"field_mapping", name>>
    ELSE <<>>

_walk_field(T, field, tabs) ==
    LET name == field.base
        enums == EnumOptions(T, name)
        path == field.path
        ref == Converted(T, name, tabs)
    IN  IF Len(path) = 1 /\ HasOption(enums, path[1])
        THEN [node |-> OptionExpr(enums, path[1]), tabs |-> tabs]
        ELSE IF ref # <<>> THEN Attach(ref, field, tabs)
        ELSE [node |-> IF strict THEN Null ELSE field, tabs |-> tabs]

_walk_function_call(node) ==
    IF node.name = "wildcard" /\ Len(node.arguments) >= 2
       /\ node.arguments[1].kind = "FunctionCall" /\ node.arguments[1].name = "coalesce"
    THEN LET coalesce_args == node.arguments[1].arguments
         IN  Or([i \in 1..Len(coalesce_args) |->
                    FunctionCall("wildcard", <<coalesce_args[i]>> \o Tail(node.arguments))])
    ELSE node

\* lines 79-104: a function call on the left, a string on the right, == or !=
FunctionComparison(comparison) ==
    LET func == comparison.left
        args == func.arguments
        right == comparison.right
        finish(f) == IF comparison.comparator = "==" THEN f ELSE Not(f)
    IN  CASE func.name = "baseName" ->
                IF args[1].kind = "Field"
                THEN finish(FunctionCall("wildcard", <<args[1], String("*\\" \o right.value)>>))
                ELSE args[1]
          [] func.name = "dirName" ->
                IF args[1].kind = "Field"
                THEN finish(FunctionCall("wildcard", <<args[1], String(right.value \o "\\*")>>))
                ELSE args[1]
          [] func.name = "coalesce" /\ args[1].kind = "Field" ->
                Or([i \in 1..Len(args) |-> Comparison(args[i], "==", right)])
          [] OTHER -> PyNone

RECURSIVE _walk_comparison(_)
_walk_comparison(comparison) ==
    IF comparison.left.kind = "FunctionCall" /\ comparison.left.name = "coalesce"
       /\ comparison.comparator = "=="
    THEN Or([i \in 1..Len(comparison.left.arguments) |->
                _walk_comparison(Comparison(comparison.left.arguments[i], "==", comparison.right))])
    ELSE IF comparison.left.kind = "FunctionCall" /\ comparison.right.kind = "String"
            /\ comparison.comparator \in {"==", "!="}
    THEN FunctionComparison(comparison)
    ELSE comparison

\* InSet.is_literal(): the container holds literals only
is_literal(set_lookup) ==
    \A i \in 1..Len(set_lookup.container) : IsLiteral(set_lookup.container[i])
\* InSet.is_dynamic(): the container holds no literal
is_dynamic(set_lookup) ==
    \A i \in 1..Len(set_lookup.container) : ~IsLiteral(set_lookup.container[i])

\* InSet.split_literals(): the literals of the container apart from the rest
split_literals(set_lookup) ==
    LET c == set_lookup.container
        lit == SelectSeq(c, IsLiteral)
        NotLiteral(n) == ~IsLiteral(n)
        dyn == SelectSeq(c, NotLiteral)
    IN  IF lit = <<>> \/ dyn = <<>> THEN set_lookup
        ELSE Or(<<InSet(set_lookup.expression, lit)>> \o
                [i \in 1..Len(dyn) |-> Comparison(set_lookup.expression, "==", dyn[i])])

\* [a for a in args if not (isinstance(a, Literal) and not a.value)]
KeepArgument(a) == ~(IsLiteral(a) /\ (a.kind = "Null" \/ a.value = ""))

\* the hook with the split tried before the literal case: every set test that is
\* not dynamic and has no function call to rewrite is split into comparisons
_walk_in_set_eager(set_lookup) ==
    LET expression == set_lookup.expression
        container == set_lookup.container
    IN  IF ~is_dynamic(set_lookup) /\ expression.kind # "FunctionCall"
        THEN Or([i \in 1..Len(container) |-> Comparison(expression, "==", container[i])])
        ELSE set_lookup

_walk_in_set(set_lookup) ==
    LET expression == set_lookup.expression
        container == set_lookup.container
        all_strings == \A i \in 1..Len(container) : container[i].kind = "String"
    IN  IF is_literal(set_lookup)
        THEN IF expression.kind # "FunctionCall" THEN set_lookup
             ELSE LET args == expression.arguments IN
                  CASE expression.name = "baseName" /\ args[1].kind = "Field" /\ all_strings ->
                          FunctionCall("wildcard", <<args[1]>> \o
                              [i \in 1..Len(container) |-> String("*\\" \o container[i].value)])
                    [] expression.name = "dirName" /\ args[1].kind = "Field" /\ all_strings ->
                          FunctionCall("wildcard", <<args[1]>> \o
                              [i \in 1..Len(container) |-> String(container[i].value \o "\\*")])
                    [] expression.name = "coalesce" ->
                          LET kept == SelectSeq(args, KeepArgument)
                          IN  Or([i \in 1..Len(kept) |-> InSet(kept[i], container)])
                    [] OTHER -> set_lookup
        ELSE IF ~is_dynamic(set_lookup) THEN split_literals(set_lookup)
        ELSE set_lookup


(***************************************************************************)
(* QueryNormalizer.walk: children first, then the hook of the node's kind, *)
(* then optimize().                                                        *)
(***************************************************************************)
\* the terms of nested combinators of one kind, in order
RECURSIVE FlattenTerms(_, _)
FlattenTerms(terms, kind) ==
    IF terms = <<>> THEN <<>>
    ELSE (IF Head(terms).kind = kind THEN FlattenTerms(Head(terms).terms, kind)
          ELSE <<Head(terms)>>) \o FlattenTerms(Tail(terms), kind)

\* node.optimize(): the local simplifications that apply to the nodes built here
Optimize(node) ==
    CASE node.kind \in {"Or", "And"} ->
            LET terms == FlattenTerms(node.terms, node.kind)
            IN  IF Len(terms) = 1 THEN terms[1] ELSE [node EXCEPT !.terms = terms]
      [] node.kind = "Not" /\ node.term.kind = "Not" -> node.term.term
      [] OTHER -> node

_walk_event_query(event_query, T) ==
    IF filter_query /\ T \in DOMAIN event_filters
    THEN [event_query EXCEPT !.query = Optimize(And(<<event_filters[T], event_query.query>>))]
    ELSE event_query

\* lines 32-35: what the hook returned, optimized when it is a node
Hooked(result) == IF result.kind = "None" THEN result ELSE Optimize(result)

RECURSIVE Walk(_, _, _)
RECURSIVE WalkSeq(_, _, _)
Walk(node, T, tabs) ==
    CASE node.kind = "Field" ->
            LET r == _walk_field(T, node, tabs)
            IN  [node |-> Optimize(r.node), tabs |-> r.tabs]
      [] node.kind = "Comparison" ->
            LET l == Walk(node.left, T, tabs)
                r == Walk(node.right, T, l.tabs)
                n == Comparison(l.node, node.comparator, r.node)
            IN  [node |-> Hooked(_walk_comparison(n)), tabs |-> r.tabs]
      [] node.kind = "FunctionCall" ->
            LET a == WalkSeq(node.arguments, T, tabs)
                n == FunctionCall(node.name, a.nodes)
            IN  [node |-> Hooked(_walk_function_call(n)), tabs |-> a.tabs]
      [] node.kind = "InSet" ->
            LET e == Walk(node.expression, T, tabs)
                c == WalkSeq(node.container, T, e.tabs)
                n == InSet(e.node, c.nodes)
            IN  [node |-> Hooked(_walk_in_set(n)), tabs |-> c.tabs]
      [] node.kind \in {"Or", "And"} ->
            LET a == WalkSeq(node.terms, T, tabs)
            IN  [node |-> Optimize([node EXCEPT !.terms = a.nodes]), tabs |-> a.tabs]
      [] node.kind = "Not" ->
            LET a == Walk(node.term, T, tabs)
            IN  [node |-> Optimize(Not(a.node)), tabs |-> a.tabs]
      [] node.kind = "EventQuery" ->
            LET a == Walk(node.query, node.event_type, tabs)
                n == EventQuery(node.event_type, a.node)
            IN  [node |-> _walk_event_query(n, node.event_type), tabs |-> a.tabs]
      [] OTHER -> [node |-> node, tabs |-> tabs]

WalkSeq(nodes, T, tabs) ==
    IF nodes = <<>> THEN [nodes |-> <<>>, tabs |-> tabs]
    ELSE LET h == Walk(Head(nodes), T, tabs)
             t == WalkSeq(Tail(nodes), T, h.tabs)
         IN  [nodes |-> <<h.node>> \o t.nodes, tabs |-> t.tabs]

\* the tree as the caller reads it: a node that is a table entry shows that
\* entry's path as it is when the call returns
RECURSIVE Resolve(_, _)
Resolve(node, tabs) ==
    CASE node.kind = "Field" ->
            IF node.ref = <<>> THEN node ELSE Field(node.base, Entry(tabs, node.ref).path)
      [] node.kind = "Comparison" ->
            Comparison(Resolve(node.left, tabs), node.comparator, Resolve(node.right, tabs))
      [] node.kind = "FunctionCall" ->
            FunctionCall(node.name,
                [i \in 1..Len(node.arguments) |-> Resolve(node.arguments[i], tabs)])
      [] node.kind = "InSet" ->
            InSet(Resolve(node.expression, tabs),
                [i \in 1..Len(node.container) |-> Resolve(node.container[i], tabs)])
      [] node.kind \in {"Or", "And"} ->
            [node EXCEPT !.terms = [i \in 1..Len(node.terms) |-> Resolve(node.terms[i], tabs)]]
      [] node.kind = "Not" -> Not(Resolve(node.term, tabs))
      [] node.kind = "EventQuery" -> EventQuery(node.event_type, Resolve(node.query, tabs))
      [] OTHER -> node

\* Normalizer.normalize_ast: QueryNormalizer(self).walk(node)
normalize_ast(node, tabs) ==
    LET r == Walk(node, NoEventType, tabs)
    IN  [node |-> Resolve(r.node, r.tabs), tabs |-> r.tabs]


(***************************************************************************)
(* The inputs the calls are made with.                                     *)
(***************************************************************************)
Absent == [t |-> "absent", v |-> 0]
\* the dict of the keys that are present
MakeRecord(f) == Dict([k \in {k \in DOMAIN f : f[k].t # "absent"} |-> f[k]])

\* what a record holds under the key the scope starts from
ScopedValues ==
    {Absent, Dict([a |-> Text("x")]), Dict([k |-> Dict([b |-> Text("x")])]),
     Text("x"), Num(5), List(<<Dict([a |-> Text("x")])>>)}

\* the raw records normalize is called with
Records ==
    {MakeRecord([ts |-> ts, event_type |-> et, a |-> a, b |-> b, s |-> s]) :
        ts \in {Absent, Num(5)}, et \in {Absent, Text("network"), Text("other")},
        a \in {Absent, Text("x")}, b \in {Absent, Text("x")}, s \in ScopedValues}

\* the records the scoper is called with on its own
ScoperRecords ==
    {MakeRecord([s |-> s]) : s \in ScopedValues \cup {List(<<>>), Dict(EmptyDict), Text("")}}

EventTypes == {EventNames[i] : i \in 1..Len(EventNames)} \cup {NoEventType}

\* sub-paths of a field reference: none, .create, [0] .. [MaxIndex]
Paths == {<<>>, <<Text("create")>>} \cup {<<Num(i)>> : i \in 0..MaxIndex}

\* references to a mapped field (name, user), an enum field (subtype) and an unmapped one (pid)
FieldRefs == {Field(base, path) : base \in {"name", "user", "subtype", "pid"}, path \in Paths}

\* the sequences of 2 .. MaxArgs fields that coalesce is called with
CoalesceArgs ==
    UNION {[1..n -> {Field("a", <<>>), Field("b", <<>>)}] : n \in 2..MaxArgs}

\* the comparisons _walk_comparison is called with
Comparisons ==
    {Comparison(FunctionCall("coalesce", args), op, String(c)) :
        args \in CoalesceArgs \cup {<<Null, Field("a", <<>>)>>}, op \in {"==", "!="}, c \in Chars}
    \cup {Comparison(FunctionCall(f, <<arg>>), op, String(c)) :
        f \in {"baseName", "dirName", "length"},
        arg \in {Field("a", <<>>), Field("b", <<>>), String("y")},
        op \in {"==", "!="}, c \in Chars}
    \cup {Comparison(Field("a", <<>>), op, String(c)) : op \in {"==", "!=", "<"}, c \in Chars}

\* containers: literal only, mixed, dynamic only
Containers ==
    {<<String("x"), String("y")>>, <<String("x"), Null>>, <<String("x"), Field("b", <<>>)>>,
     <<Field("b", <<>>), String("x")>>, <<Field("b", <<>>), Field("c", <<>>)>>, <<String("x")>>}

\* the set-membership tests _walk_in_set is called with
InSets ==
    {InSet(e, c) : c \in Containers,
        e \in {Field("a", <<>>), FunctionCall("baseName", <<Field("a", <<>>)>>),
               FunctionCall("dirName", <<Field("a", <<>>)>>),
               FunctionCall("length", <<Field("a", <<>>)>>)}
              \cup {FunctionCall("coalesce", <<args[1], Null>> \o Tail(args)) : args \in CoalesceArgs}}

\* the conditions of the queries normalize_ast is called with
Conditions ==
    FieldRefs
    \cup {Comparison(Field("name", p), "==", Field("name", q)) :
            p \in Paths, q \in {<<>>, <<Num(0)>>}}
    \cup {Comparison(FunctionCall("coalesce", <<Field("name", <<>>), Field("pid", <<>>)>>),
                     op, String("x")) : op \in {"==", "!="}}
    \cup {Comparison(Field("user", <<>>), "==", String("x")),
          InSet(Field("name", <<>>), <<String("x"), String("y")>>),
          FunctionCall("wildcard",
              <<FunctionCall("coalesce", <<Field("name", <<>>), Field("pid", <<>>)>>),
                String("x")>>)}

Queries == Conditions \cup {EventQuery(T, c) : T \in EventTypes \ {NoEventType}, c \in Conditions}

(***************************************************************************)
(* The state machine: a Normalizer after construction, and the calls made  *)
(* on it.                                                                  *)
(***************************************************************************)
Called(op, arg, exc, result) == [op |-> op, arg |-> arg, exc |-> exc, result |-> result]

\* Normalizer.__init__
Init ==
    /\ strict \in BOOLEAN
    /\ filter_query \in BOOLEAN
    /\ scope \in Scopes
    /\ field_mapping = ConfigFieldMapping
    /\ event_field_mapping = ConfigEventFieldMapping
    /\ event_enums = ConfigEventEnums
    /\ event_filters = ConfigEventFilters
    /\ last = Called("__init__", <<>>, "none", <<>>)

Tables == [fm |-> field_mapping, efm |-> event_field_mapping]

\* normalizer.normalize_ast(query)
NormalizeAst(query) ==
    LET r == normalize_ast(query, Tables)
    IN  /\ field_mapping' = r.tabs.fm
        /\ event_field_mapping' = r.tabs.efm
        /\ last' = Called("normalize_ast", query, "none", r.node)
        /\ UNCHANGED <<strict, filter_query, scope, event_enums, event_filters>>

\* QueryNormalizer(normalizer)._walk_field(field) with current_event_type = T
WalkField(T, field) ==
    LET r == _walk_field(T, field, Tables)
    IN  /\ field_mapping' = r.tabs.fm
        /\ event_field_mapping' = r.tabs.efm
        /\ last' = Called("_walk_field", <<T, field>>, "none", Resolve(r.node, r.tabs))
        /\ UNCHANGED <<strict, filter_query, scope, event_enums, event_filters>>

\* QueryNormalizer(normalizer)._walk_comparison(comparison)
WalkComparison(comparison) ==
    /\ last' = Called("_walk_comparison", comparison, "none", _walk_comparison(comparison))
    /\ UNCHANGED <<strict, filter_query, scope, field_mapping, event_field_mapping,
                   event_enums, event_filters>>

\* QueryNormalizer(normalizer)._walk_in_set(set_lookup)
WalkInSet(set_lookup) ==
    /\ last' = Called("_walk_in_set", set_lookup, "none", _walk_in_set(set_lookup))
    /\ UNCHANGED <<strict, filter_query, scope, field_mapping, event_field_mapping,
                   event_enums, event_filters>>

\* normalizer.data_normalizer(data), on either interpreter
Normalize(data, py, lenient) ==
    LET r == normalize_callback(data, py, lenient)
    IN  /\ last' = Called("normalize", data, r.exc, r.val)
        /\ UNCHANGED <<strict, filter_query, scope, field_mapping, event_field_mapping,
                       event_enums, event_filters>>

\* normalizer.get_scoper()(data), for a configuration that has a scope
Scoper(data, py) ==
    /\ scope # <<>>
    /\ LET r == walk_path(data, py)
       IN  last' = Called("walk_path", data, r.exc, r.val)
    /\ UNCHANGED <<strict, filter_query, scope, field_mapping, event_field_mapping,
                   event_enums, event_filters>>

\* the calls of the query rewriter through its entry point and its field hook
NextQuery ==
    \/ \E query \in Queries : NormalizeAst(query)
    \/ \E T \in EventTypes, field \in FieldRefs : WalkField(T, field)

\* the calls of the rewrite hooks that read no table
NextHooks ==
    \/ \E comparison \in Comparisons : WalkComparison(comparison)
    \/ \E set_lookup \in InSets : WalkInSet(set_lookup)

\* the calls of the record normaliser and of its scoper
NextData ==
    \/ \E data \in Records, py \in PyVersions, lenient \in BOOLEAN : Normalize(data, py, lenient)
    \/ \E data \in ScoperRecords, py \in PyVersions : Scoper(data, py)

Next == NextQuery \/ NextHooks \/ NextData

Spec == Init /\ [][Next]_vars

\* query rewriting reads no scope: a Normalizer without one, and its rewriter
InitQuery == Init /\ scope = <<>>
SpecQuery == InitQuery /\ [][NextQuery]_vars
SpecHooks == InitQuery /\ [][NextHooks]_vars

\* record normalisation reads no filter_query: a Normalizer without one, and its normaliser
InitData == Init /\ ~filter_query
SpecData == InitData /\ [][NextData]_vars


(***************************************************************************)
(* The properties.                                                         *)
(***************************************************************************)
ConfigTables == [fm |-> ConfigFieldMapping, efm |-> ConfigEventFieldMapping]

\* C1: the tree normalize_ast returns for a query is the tree a newly
\* constructed Normalizer returns for it, whatever calls were made before.
C1_StatelessAcrossCalls ==
    last.op = "normalize_ast" => last.result = normalize_ast(last.arg, ConfigTables).node

\* C2: every expression of the four parsed-expression tables equals its value
\* at the end of construction, after any sequence of calls.
C2_TablesReadOnly ==
    /\ field_mapping = ConfigFieldMapping
    /\ event_field_mapping = ConfigEventFieldMapping
    /\ event_enums = ConfigEventEnums
    /\ event_filters = ConfigEventFilters

\* the record declares an event_type that is the name of a configured event type
DeclaresRecognized(data) ==
    /\ "event_type" \in DOMAIN data.v
    /\ data.v["event_type"].t = "str"
    /\ \E i \in 1..Len(EventNames) : EventNames[i] = data.v["event_type"].v

\* the filter of the i-th declared event type is true on the full record
FilterTrue(i, data) == IsTrue(Eval(ConfigEventFilters[EventNames[i]], data))

Normalized == last.op = "normalize" /\ last.exc = "none"

\* C3: for a record that declares no recognized event_type, the output
\* event_type is the earliest-declared event type whose filter is true on the
\* full record, and it is the generic type exactly when no filter is true.
C3_FirstMatchInDeclarationOrder ==
    (Normalized /\ ~DeclaresRecognized(last.arg)) =>
        LET et == last.result.v["event_type"]
            matches == {i \in 1..Len(EventNames) : FilterTrue(i, last.arg)}
        IN  /\ matches # {} =>
                \E i \in matches : (\A j \in matches : i <= j) /\ et = Text(EventNames[i])
            /\ (et = Text(EVENT_TYPE_GENERIC)) <=> (matches = {})

\* C3 witness: both filters are true on a record that declares no event_type,
\* and the earlier-declared type was chosen.
C3_Witness ==
    /\ Normalized /\ ~DeclaresRecognized(last.arg)
    /\ FilterTrue(1, last.arg) /\ FilterTrue(2, last.arg)
    /\ last.result.v["event_type"] = Text(EventNames[1])

\* C4: a record that declares a recognized event_type keeps it in the output,
\* whatever the filters say.
C4_DeclaredTypeTrusted ==
    (Normalized /\ DeclaresRecognized(last.arg)) =>
        last.result.v["event_type"] = last.arg.v["event_type"]

\* C5: normalize of a record without the timestamp field raises ValueError.
C5_MissingTimestampIsValueError ==
    (last.op = "normalize" /\ time_field \notin DOMAIN last.arg.v) => last.exc = "ValueError"

\* the canonical names normalize may write for an event type
CanonicalNames(event_type) ==
    {"event_type", "timestamp"} \cup DOMAIN global_mapping
        \cup DOMAIN enum_converters(event_type) \cup DOMAIN event_mapping(event_type)

\* the scoped record of a normalize call that returned
ScopedOf(data, py) == IF scope = <<>> THEN Ok(data) ELSE walk_path(data, py)

\* C7: in strict mode every output key is event_type, timestamp or a canonical
\* name configured globally or for the resolved event type; in non-strict mode
\* every key of the scoped record is in the output with its original value
\* unless a canonical name overwrote it.
C7_StrictDropsPermissiveKeeps ==
    Normalized =>
        LET output == last.result.v
            names == CanonicalNames(output["event_type"].v)
        IN  IF strict THEN DOMAIN output \subseteq names
            ELSE \E py \in PyVersions :
                    LET sc == ScopedOf(last.arg, py)
                    IN  /\ sc.exc = "none" /\ sc.val.t = "dict"
                        /\ \A k \in DOMAIN sc.val.v :
                              k \in DOMAIN output /\ (output[k] = sc.val.v[k] \/ k \in names)

\* C7 witness: a non-strict, scoped call whose output holds the unmapped field a
\* of the scoped record beside the mapped name.
C7_Witness ==
    /\ Normalized /\ ~strict /\ scope = <<Text("s")>>
    /\ {"a", "name"} \subseteq DOMAIN last.result.v
    /\ last.result.v["a"] = Text("x")

\* the reference names an enum option of its field under the event type
EnumHit(T, field) ==
    Len(field.path) = 1 /\ HasOption(EnumOptions(T, field.base), field.path[1])

\* the node the claimed priority yields: the event-specific entry, else the
\* global entry, else null (strict) or the reference itself
ByPriority(T, field) ==
    IF T \in DOMAIN event_field_mapping /\ field.base \in DOMAIN event_field_mapping[T]
    THEN event_field_mapping[T][field.base]
    ELSE IF field.base \in DOMAIN field_mapping THEN field_mapping[field.base]
    ELSE IF strict THEN Null ELSE field

\* C6 as stated: every field reference resolves by the priority event-specific
\* mapping, global mapping, default.
C6_PriorityForEveryReference ==
    last.op = "_walk_field" => last.result = ByPriority(last.arg[1], last.arg[2])

\* C6 amended: a reference whose single-segment sub-path names an enum option of
\* its field under the event type yields that option's expression; every other
\* reference resolves by the priority event-specific mapping, global mapping,
\* default.
C6_PriorityAfterEnums ==
    last.op = "_walk_field" =>
        LET T == last.arg[1]
            field == last.arg[2]
        IN  IF EnumHit(T, field)
            THEN last.result = OptionExpr(EnumOptions(T, field.base), field.path[1])
            ELSE last.result = ByPriority(T, field)

\* C6 witness: name has a global and a process mapping; name[0] under process
\* came back as the process mapping.
C6_Witness ==
    /\ last.op = "_walk_field"
    /\ last.arg = <<"process", Field("name", <<Num(0)>>)>>
    /\ last.result = Field("b", <<Num(0)>>)

\* the events a comparison over the fields a and b is evaluated on
FieldValues == {None} \cup {Text(c) : c \in Chars}
EvalEvents == {Dict([a |-> va, b |-> vb]) : va, vb \in FieldValues}

\* coalesce over field references on the left, a string literal on the right
IsCoalesceComparison(c) ==
    /\ c.kind = "Comparison" /\ c.left.kind = "FunctionCall" /\ c.left.name = "coalesce"
    /\ \A i \in 1..Len(c.left.arguments) : c.left.arguments[i].kind = "Field"
    /\ c.right.kind = "String"

\* C8: a comparison of coalesce(...) with a string literal and what
\* _walk_comparison returns for it have the same truth value on every event.
C8_CoalesceRewriteEquivalent ==
    (last.op = "_walk_comparison" /\ IsCoalesceComparison(last.arg)) =>
        \A e \in EvalEvents : IsTrue(Eval(last.result, e)) = IsTrue(Eval(last.arg, e))

LiteralPlainTest(set_lookup) ==
    is_literal(set_lookup) /\ set_lookup.expression.kind # "FunctionCall"

\* C9 as stated: a fully literal set test on a plain expression comes back as a
\* disjunction of comparisons, not as the original node.
C9_LiteralSetIsSplit ==
    (last.op = "_walk_in_set" /\ LiteralPlainTest(last.arg)) =>
        last.result # last.arg /\ last.result.kind = "Or"

\* C9 amended: a fully literal set test on a plain expression comes back as the
\* original node; only a container that mixes literals with other members is
\* split.
C9_LiteralSetIsKept ==
    last.op = "_walk_in_set" =>
        /\ LiteralPlainTest(last.arg) => last.result = last.arg
        /\ (last.result.kind = "Or" /\ last.arg.expression.kind # "FunctionCall") =>
              ~is_literal(last.arg) /\ ~is_dynamic(last.arg)

\* C9 witness: a in ("x", "y") came back unchanged.
C9_Witness ==
    /\ last.op = "_walk_in_set"
    /\ last.arg = InSet(Field("a", <<>>), <<String("x"), String("y")>>)
    /\ last.result = last.arg

\* C10: the scoper returns a dict and raises nothing, for every record.
C10_ScoperReturnsRecord ==
    last.op = "walk_path" => last.exc = "none" /\ last.result.t = "dict"

====
